---- MODULE Spec2Model ----
(***************************************************************************)
(* Balance loading (src/main/externalData/balances) and gas calculation    *)
(* (src/main/transaction/gasCalculator.ts) of frame.                       *)
(*                                                                         *)
(* Hex strings ("0x...") are sequences of hex digits 0..15, the "0x"       *)
(* prefix left implicit; decimal strings that are parsed or compared are   *)
(* sequences of decimal digits; strings that are only produced (display    *)
(* balances) are TLA+ strings.  A promise is a record with a state         *)
(* "pending", "fulfilled" (with value) or "rejected" (with reason).        *)
(***************************************************************************)
EXTENDS Integers, Sequences, FiniteSets, TLC

VARIABLES
    chains,          \* getCurrencyBalances: the chain-id list it was called with
    nativeBranch,    \* getCurrencyBalances: one promise per getNativeCurrencyBalance call
    currencyPromise, \* getCurrencyBalances: the promise returned to the caller
    ethRequests,     \* every payload handed to eth.request, in issue order
    multicallChains, \* the chains multicallSupportsChain answers true for
    id,              \* scan.ts module-level request id counter
    tokens,          \* getTokenBalances: the token list it was called with
    chainGroups,     \* getTokenBalances: Object.entries(tokensByChain), as [chainId, tokens]
    chainBranch,     \* getTokenBalances: one promise per Object.entries(tokensByChain) entry
    batchCalls,      \* every [chainId, calls] handed to multicall(chainId, eth).batchCall
    batchOutcome,    \* the per-call outcomes the batcher answered each chain group with
    tokenResponse,   \* what the eth_call request of each token settled with
    tokenPromise,    \* getTokenBalances: the promise returned to the caller
    earlier,         \* getTokenBalances: the calls made before the last one, still running
    defaultGasLevel, \* GasCalculator: the level it was constructed with
    sent,            \* every payload handed to connection.send, in issue order
    feeResponse,     \* getFeePerGas: what the fee-history request settled with
    feePromise,      \* getFeePerGas: the promise returned to the caller
    estimates,       \* getGasEstimate: one record per call, with its promise
    heap,            \* the arrays and objects the reducers are given and create
    reduced,         \* tokens.reduce(groupByChain, {}): the tokens folded so far
    accumulator,     \* tokens.reduce(groupByChain, {}): the reference it holds
    relevant         \* relevantBalances: its arguments and what it returned

currencyVars == <<chains, nativeBranch, currencyPromise>>
tokenVars == <<id, tokens, chainGroups, chainBranch, batchCalls, batchOutcome, tokenResponse, tokenPromise, earlier>>
balanceVars == <<currencyVars, tokenVars, ethRequests, multicallChains>>
gasVars == <<defaultGasLevel, sent, feeResponse, feePromise, estimates>>
reducerVars == <<heap, reduced, accumulator, relevant>>
vars == <<balanceVars, gasVars, reducerVars>>

(***************************************************************************)
(* Bounds of the model.                                                    *)
(***************************************************************************)
MaxChains == 3
MaxTokens == 3
MaxBlocks == 2
MaxEstimates == 2
MaxInvocations == 2

ChainIds == {1, 137}
RawBalances == {<<0>>, <<1, 11>>, <<2, 7, 1, 0>>}   \* "0x0", "0x1b", "0x2710"
Address == "0xowner"
TokenDefinitions ==
    {[chainId |-> 137, address |-> "0xa", decimals |-> 0],
     [chainId |-> 137, address |-> "0xb", decimals |-> 2],
     [chainId |-> 1, address |-> "0xc", decimals |-> 1],
     [chainId |-> 1, address |-> "0xd", decimals |-> 3]}
TokenAmounts == {0, 1500}     \* balances a balanceOf call can report
DefaultGasLevels == {<<5, 15, 5, 14, 1, 0, 0>>, <<0, 5>>}   \* "0x5f5e100", "0x05"
PastBaseFee == <<6, 4>>                                     \* "0x64"
NextBaseFees == {<<6, 14>>, <<7>>, <<>>}                    \* "0x6e", "0x7", "0x"
GasUsedRatios == {5, 10, 90, 95}                            \* percent
RewardSamples ==                                            \* none, "0x0", "0x2", "0x3", "0xa", "0x"
    {<<>>, <<(<<0>>)>>, <<(<<2>>)>>, <<(<<3>>)>>, <<(<<10>>)>>, <<(<<>>)>>}
RawTransactions ==
    {[chainId |-> c, to |-> t] : c \in {<<1>>, <<8, 9>>}, t \in {"0xa", "0xb"}}
GasLimits == {<<5, 2, 0, 8>>, <<15, 4, 2, 4, 0>>}           \* "0x5208", "0xf4240"
EstimateErrors == {"execution reverted", "insufficient funds"}

(***************************************************************************)
(* Strings and numbers.                                                    *)
(***************************************************************************)
HexChar == <<"0", "1", "2", "3", "4", "5", "6", "7", "8", "9", "a", "b", "c", "d", "e", "f">>

RECURSIVE JoinDigits(_)
JoinDigits(ds) == IF ds = <<>> THEN "" ELSE HexChar[Head(ds) + 1] \o JoinDigits(Tail(ds))

RECURSIVE Repeat(_, _)
Repeat(d, n) == IF n <= 0 THEN <<>> ELSE <<d>> \o Repeat(d, n - 1)

\* Number.prototype.toString(radix) for a non-negative integer
RECURSIVE ToDigits(_, _)
ToDigits(n, radix) ==
    IF n < radix THEN <<n>> ELSE Append(ToDigits(n \div radix, radix), n % radix)

\* parseInt(digits, radix) / new BigNumber("0x...") for a digit string
RECURSIVE FromDigits(_, _)
FromDigits(ds, radix) ==
    IF ds = <<>> THEN 0
    ELSE FromDigits(SubSeq(ds, 1, Len(ds) - 1), radix) * radix + ds[Len(ds)]

\* addHexPrefix(n.toString(16))
ToHex(n) == ToDigits(n, 16)

RECURSIVE StripTrailingZeros(_)
StripTrailingZeros(ds) ==
    IF Len(ds) > 1 /\ ds[Len(ds)] = 0
    THEN StripTrailingZeros(SubSeq(ds, 1, Len(ds) - 1)) ELSE ds

\* bignumber.js: exponents at or below TO_EXP_NEG print in exponential notation
TO_EXP_NEG == -7

\* new BigNumber(n).shiftedBy(-decimals).toString()
ShiftedToString(n, decimals) ==
    LET all == ToDigits(n, 10)
        c == StripTrailingZeros(all)
        e == Len(all) - 1 - decimals      \* exponent of the leading digit
    IN  IF n = 0 THEN "0"
        ELSE IF e <= TO_EXP_NEG
        THEN JoinDigits(<<c[1]>>)
             \o (IF Len(c) > 1 THEN "." \o JoinDigits(Tail(c)) ELSE "")
             \o "e-" \o JoinDigits(ToDigits(0 - e, 10))
        ELSE IF e < 0
        THEN "0." \o JoinDigits(Repeat(0, (0 - e) - 1)) \o JoinDigits(c)
        ELSE IF Len(c) - 1 > e
        THEN JoinDigits(SubSeq(c, 1, e + 1)) \o "." \o JoinDigits(SubSeq(c, e + 2, Len(c)))
        ELSE JoinDigits(c) \o JoinDigits(Repeat(0, e - (Len(c) - 1)))

createBalance(rawBalance, decimals) ==
    [balance |-> rawBalance,
     displayBalance |-> ShiftedToString(FromDigits(rawBalance, 16), decimals)]

(***************************************************************************)
(* Input lists.                                                            *)
(***************************************************************************)
RECURSIVE SeqsUpTo(_, _)
SeqsUpTo(S, n) ==
    IF n = 0 THEN {<<>>}
    ELSE LET shorter == SeqsUpTo(S, n - 1)
         IN  shorter \cup {Append(s, x) : s \in shorter, x \in S}

\* the lists of at most n distinct elements of S
DistinctSeqsUpTo(S, n) ==
    {s \in SeqsUpTo(S, n) : \A i, j \in 1..Len(s) : i /= j => s[i] /= s[j]}

(***************************************************************************)
(* Promises.                                                               *)
(***************************************************************************)
Idle == [state |-> "idle"]
Pending == [state |-> "pending"]
Fulfilled(v) == [state |-> "fulfilled", value |-> v]
Rejected(r) == [state |-> "rejected", reason |-> r]

\* a Promise.all that settles only when one of its branches does
PromiseAllOnSettlement(p, bs) ==
    IF p.state /= "pending" \/ bs = <<>> THEN p
    ELSE IF \E i \in DOMAIN bs : bs[i].state = "rejected"
    THEN Rejected(bs[CHOOSE i \in DOMAIN bs : bs[i].state = "rejected"].reason)
    ELSE IF \A i \in DOMAIN bs : bs[i].state = "fulfilled"
    THEN Fulfilled([i \in DOMAIN bs |-> bs[i].value])
    ELSE p

\* Promise.all over the branch promises bs, given the promise p it returned
\* so far: rejects with the first rejection, fulfils with all values in
\* branch order once every branch is fulfilled, and settles only once.
PromiseAll(p, bs) ==
    IF p.state /= "pending" THEN p
    ELSE IF \E i \in DOMAIN bs : bs[i].state = "rejected"
    THEN Rejected(bs[CHOOSE i \in DOMAIN bs : bs[i].state = "rejected"].reason)
    ELSE IF \A i \in DOMAIN bs : bs[i].state = "fulfilled"
    THEN Fulfilled([i \in DOMAIN bs |-> bs[i].value])
    ELSE p

(***************************************************************************)
(* getCurrencyBalances                                                     *)
(***************************************************************************)
NativeDecimals == 18

\* the eth_getBalance payload of getNativeCurrencyBalance
BalanceRequest(address, chainId) ==
    [method |-> "eth_getBalance", params |-> <<address, "latest">>, chainId |-> ToHex(chainId)]

\* what eth.request settles with: a result, or an error it rejects with
TransportError == [ok |-> FALSE, error |-> "transport error"]
TransportResult(r) == [ok |-> TRUE, result |-> r]

\* a request that has not settled yet
NoResponse == [settled |-> FALSE]

\* getNativeCurrencyBalance with the try block alone: an error propagates
getNativeCurrencyBalanceNoCatch(response, chainId) ==
    IF response.ok
    THEN Fulfilled([balance |-> createBalance(response.result, NativeDecimals).balance,
                    displayBalance |-> createBalance(response.result, NativeDecimals).displayBalance,
                    chainId |-> chainId])
    ELSE Rejected(response.error)

\* getNativeCurrencyBalance once its request has settled with response: the
\* try branch on a result, the catch branch on an error
getNativeCurrencyBalance(response, chainId) ==
    IF response.ok
    THEN Fulfilled([balance |-> createBalance(response.result, NativeDecimals).balance,
                    displayBalance |-> createBalance(response.result, NativeDecimals).displayBalance,
                    chainId |-> chainId])
    ELSE Fulfilled([balance |-> <<0>>, displayValue |-> "0.0", chainId |-> chainId])

\* getCurrencyBalances(address, chs): every getNativeCurrencyBalance runs to
\* its await, so all requests are issued in input order before any completes
getCurrencyBalances(address, chs) ==
    /\ currencyPromise.state = "idle"
    /\ chains' = chs
    /\ nativeBranch' = [i \in 1..Len(chs) |-> Pending]
    /\ ethRequests' = ethRequests \o [i \in 1..Len(chs) |-> BalanceRequest(address, chs[i])]
    /\ currencyPromise' = PromiseAll(Pending, nativeBranch')
    /\ UNCHANGED <<tokenVars, multicallChains, gasVars, reducerVars>>

\* the eth_getBalance request of chains[i] settles; the continuation of
\* getNativeCurrencyBalance runs, and Promise.all settles if it was the last
BalanceRequestSettles(i, response) ==
    /\ i \in DOMAIN nativeBranch
    /\ nativeBranch[i].state = "pending"
    /\ nativeBranch' = [nativeBranch EXCEPT ![i] = getNativeCurrencyBalance(response, chains[i])]
    /\ currencyPromise' = PromiseAll(currencyPromise, nativeBranch')
    /\ UNCHANGED <<chains, ethRequests, tokenVars, multicallChains, gasVars, reducerVars>>

BalanceResponses == {TransportError} \cup {TransportResult(r) : r \in RawBalances}

(***************************************************************************)
(* reducers.ts: groupByChain.  A TokensByChain object is a function from   *)
(* its property keys (the chain ids as decimal strings) to token lists.    *)
(***************************************************************************)
\* { ...a, ...b }
Merge(a, b) ==
    [f \in DOMAIN a \cup DOMAIN b |-> IF f \in DOMAIN b THEN b[f] ELSE a[f]]

\* a number used as a property key
PropertyKey(n) == ToDigits(n, 10)

\* groupByChain putting the token before the chain's earlier ones
groupByChainPrepending(grouped, token) ==
    LET key == PropertyKey(token.chainId)
    IN  Merge(grouped,
              [k \in {key} |-> <<token>> \o (IF key \in DOMAIN grouped THEN grouped[key] ELSE <<>>)])

\* groupByChain(grouped, token): a new object, the token appended to its chain
groupByChain(grouped, token) ==
    LET key == PropertyKey(token.chainId)
    IN  Merge(grouped,
              [k \in {key} |-> (IF key \in DOMAIN grouped THEN grouped[key] ELSE <<>>) \o <<token>>])

\* The arrays and objects of the reducers live on a heap, a list of objects
\* addressed by position: an array is [list |-> its elements], a
\* TokensByChain object is [map |-> its keys to the references of its arrays].
\* The TokensByChain value a reference stands for:
Deref(h, ref) == [k \in DOMAIN h[ref].map |-> h[h[ref].map[k]].list]

\* groupByChain pushing the token onto the array the accumulator holds
groupByChainPushing(h, grouped, token) ==
    LET key == PropertyKey(token.chainId)
    IN  IF key \in DOMAIN h[grouped].map
        THEN [heap |-> [h EXCEPT ![h[grouped].map[key]] = [list |-> Append(@.list, token)]],
              returned |-> grouped]
        ELSE [heap |-> [h EXCEPT ![grouped] = [map |-> Merge(@.map, [k \in {key} |-> Len(h) + 1])]]
                          \o <<[list |-> <<token>>]>>,
              returned |-> grouped]

\* groupByChain(grouped, token) on the heap h, grouped a reference: the array
\* literal and the object literal are new objects, and the spread copies the
\* references to the other chains' arrays
groupByChainOnHeap(h, grouped, token) ==
    LET key == PropertyKey(token.chainId)
    IN  [heap |-> h \o <<[list |-> groupByChain(Deref(h, grouped), token)[key]],
                         [map |-> Merge(h[grouped].map, [k \in {key} |-> Len(h) + 1])]>>,
         returned |-> Len(h) + 2]

\* one step of tokens.reduce(groupByChain, {}): the callback is applied to
\* the accumulator and the next token
ReduceStep(token) ==
    /\ Len(reduced) < MaxTokens
    /\ heap' = groupByChainOnHeap(heap, accumulator, token).heap
    /\ accumulator' = groupByChainOnHeap(heap, accumulator, token).returned
    /\ reduced' = Append(reduced, token)
    /\ UNCHANGED <<relevant, balanceVars, gasVars>>

\* tks.reduce(groupByChain, grouped)
RECURSIVE ReduceGroupByChain(_, _)
ReduceGroupByChain(tks, grouped) ==
    IF tks = <<>> THEN grouped
    ELSE ReduceGroupByChain(Tail(tks), groupByChain(grouped, Head(tks)))

\* Object.entries(obj) of an object whose keys are all integer keys: own
\* properties are listed in ascending numeric key order
RECURSIVE EntriesOf(_, _)
EntriesOf(obj, keys) ==
    IF keys = {} THEN <<>>
    ELSE LET least == CHOOSE k \in keys :
                        \A other \in keys : FromDigits(k, 10) <= FromDigits(other, 10)
         IN  <<(<<least, obj[least]>>)>> \o EntriesOf(obj, keys \ {least})

ObjectEntries(obj) == EntriesOf(obj, DOMAIN obj)

(***************************************************************************)
(* getTokenBalances                                                        *)
(***************************************************************************)
\* ethers BigNumber.toHexString(): an even number of hex digits
toHexString(n) ==
    LET ds == ToDigits(n, 16) IN IF Len(ds) % 2 = 1 THEN <<0>> \o ds ELSE ds

\* hex digits in the ABI encoding of one uint256
AbiWordDigits == 64

\* well-formed return data of balanceOf for amount n
AbiEncode(n) ==
    LET ds == ToDigits(n, 16) IN Repeat(0, AbiWordDigits - Len(ds)) \o ds

\* balanceCalls(owner, tks): the decoder of call i closes over token i's decimals
balanceCalls(owner, tks) ==
    [i \in 1..Len(tks) |->
        [target |-> tks[i].address,
         call |-> <<"function balanceOf(address address) returns (uint256 value)", owner>>,
         returnsDecimals |-> tks[i].decimals]]

\* calls[i].returns[0](bn)
Returns(call, bn) == createBalance(toHexString(bn), call.returnsDecimals)

\* multicall's supportsChain
multicallSupportsChain(chainId) == chainId \in multicallChains

\* what batchCall settles with.  A per-call outcome is a failure or the
\* amount the call returned; the batcher answers with one result per call, in
\* call order, the decoder of each call applied to its own return value.
BatchRejected == [ok |-> FALSE, error |-> "batch call failed"]
CallOutcomes == {[success |-> FALSE]} \cup {[success |-> TRUE, amount |-> n] : n \in TokenAmounts}
BatchOutcomes(n) == [1..n -> CallOutcomes]
BatchResults(calls, outcome) ==
    [ok |-> TRUE,
     results |-> [i \in 1..Len(calls) |->
                    IF outcome[i].success
                    THEN [success |-> TRUE, returnValues |-> <<Returns(calls[i], outcome[i].amount)>>]
                    ELSE [success |-> FALSE, returnValues |-> <<>>]]]

\* a counter that every call of getTokenBalances starts anew
RequestIdFromOne(counter, n) == 1 + n

\* id: (id += 1), for the n-th request issued since the counter read `counter`
RequestId(counter, n) == counter + n

\* the eth_call payload of getTokenBalance, with the id it was given
TokenRequest(token, owner, requestId) ==
    [method |-> "eth_call", jsonrpc |-> "2.0", id |-> requestId,
     chainId |-> ToHex(token.chainId),
     params |-> <<[to |-> token.address, value |-> <<0>>, data |-> <<"balanceOf", owner>>], "latest">>]

\* getTokenBalance with the try block alone: an error propagates
getTokenBalanceNoCatch(response) ==
    IF ~response.ok THEN Rejected(response.error)
    ELSE IF Len(response.result) /= AbiWordDigits THEN Rejected("decode error")
    ELSE Fulfilled(toHexString(FromDigits(response.result, 16)))

\* getTokenBalance once its request has settled with response: the decoded
\* amount as a hex string, "0x0" when the request or the decoding failed
getTokenBalance(response) ==
    IF ~response.ok THEN Fulfilled(<<0>>)
    ELSE IF Len(response.result) /= AbiWordDigits THEN Fulfilled(<<0>>)
    ELSE Fulfilled(toHexString(FromDigits(response.result, 16)))

\* the async mapper of getTokenBalancesFromContracts after its await
TokenBalanceFromContract(token, rawBalance) ==
    IF rawBalance.state = "rejected" THEN rawBalance
    ELSE Fulfilled(Merge(token, createBalance(rawBalance.value, token.decimals)))

\* results.map(...) zeroing every balance as soon as one call failed
MergeBatchResultsAllOrNothing(tks, results) ==
    [i \in 1..Len(results) |->
        Merge(tks[i],
              IF \A j \in 1..Len(results) : results[j].success THEN results[i].returnValues[1]
              ELSE createBalance(<<0>>, tks[i].decimals))]

\* getTokenBalancesFromMulticall after its await: results.map(...)
MergeBatchResults(tks, results) ==
    [i \in 1..Len(results) |->
        Merge(tks[i],
              IF results[i].success THEN results[i].returnValues[1]
              ELSE createBalance(<<0>>, tks[i].decimals))]

getTokenBalancesFromMulticall(tks, batch) ==
    IF batch.ok THEN Fulfilled(MergeBatchResults(tks, batch.results))
    ELSE Rejected(batch.error)

\* the path of a loader that never asks multicallSupportsChain
AlwaysMulticall(chainId) == "multicall"

\* the path getTokenBalances takes for one chain
BalancePath(chainId) ==
    IF multicallSupportsChain(chainId) THEN "multicall" ELSE "contracts"

\* [].concat(...lists)
RECURSIVE Concat(_)
Concat(lists) == IF lists = <<>> THEN <<>> ELSE Head(lists) \o Concat(Tail(lists))

\* the promise getTokenBalances returns, given the chain branches
TokenBalancesPromise(p, branches) ==
    LET all == PromiseAll(p, branches)
    IN  IF p.state = "pending" /\ all.state = "fulfilled"
        THEN Fulfilled(Concat(all.value)) ELSE all

\* Object.entries(tokensByChain) with the key parsed back: [chainId, tokens]
ChainGroups(tks) ==
    LET entries == ObjectEntries(ReduceGroupByChain(tks, <<>>))
    IN  [k \in 1..Len(entries) |->
            [chainId |-> FromDigits(entries[k][1], 10), tokens |-> entries[k][2]]]

\* the tokens that go through getTokenBalance, in the order their requests
\* are issued
ContractTokens(groups) ==
    Concat([k \in 1..Len(groups) |->
              IF BalancePath(groups[k].chainId) = "contracts" THEN groups[k].tokens ELSE <<>>])

\* getTokenBalances(owner, tks) up to the await of Promise.all: it runs
\* synchronously, so every batchCall and every eth_call is issued here
TokenBalancesIssued(owner, tks) ==
    LET groups == ChainGroups(tks)
        direct == ContractTokens(groups)
        batched == SelectSeq(groups, LAMBDA g : BalancePath(g.chainId) = "multicall")
    IN  /\ tokens' = tks
        /\ chainGroups' = groups
        /\ chainBranch' =
             [k \in 1..Len(groups) |->
                IF BalancePath(groups[k].chainId) = "multicall"
                THEN [path |-> "multicall", state |-> "pending"]
                ELSE [path |-> "contracts", state |-> "pending",
                      balances |-> [j \in 1..Len(groups[k].tokens) |-> Pending]]]
        /\ batchCalls' = batchCalls \o
             [b \in 1..Len(batched) |->
                [chainId |-> batched[b].chainId, calls |-> balanceCalls(owner, batched[b].tokens)]]
        /\ ethRequests' = ethRequests \o
             [n \in 1..Len(direct) |-> TokenRequest(direct[n], owner, RequestId(id, n))]
        /\ batchOutcome' = [k \in 1..Len(groups) |-> <<>>]
        /\ tokenResponse' = [k \in 1..Len(groups) |->
                                [j \in 1..Len(groups[k].tokens) |-> NoResponse]]
        /\ id' = id + Len(direct)
        /\ tokenPromise' = TokenBalancesPromise(Pending, chainBranch')
        /\ UNCHANGED <<currencyVars, multicallChains, gasVars, reducerVars>>

\* the first call of getTokenBalances
getTokenBalances(owner, tks) ==
    /\ tokenPromise.state = "idle"
    /\ TokenBalancesIssued(owner, tks)
    /\ UNCHANGED earlier

\* a further call of getTokenBalances, made while the calls before it may
\* still be waiting for their requests
getTokenBalancesAgain(owner, tks) ==
    /\ tokenPromise.state /= "idle"
    /\ Len(earlier) + 1 < MaxInvocations
    /\ TokenBalancesIssued(owner, tks)
    /\ earlier' = Append(earlier, [tokens |-> tokens, chainGroups |-> chainGroups,
                                    chainBranch |-> chainBranch, tokenPromise |-> tokenPromise])

\* the branch of a chain on the per-token path once the request of its
\* token j has settled with response: Promise.all(balances) settles with it
ContractsBranchAfter(branch, token, j, response) ==
    LET balances == [branch.balances EXCEPT
                       ![j] = TokenBalanceFromContract(token, getTokenBalance(response))]
        settled == PromiseAll(Pending, balances)
    IN  IF branch.state = "pending"
        THEN Merge(settled, [path |-> "contracts", balances |-> balances])
        ELSE Merge(branch, [balances |-> balances])

\* the eth_call request for token j of chain group k settles
TokenRequestSettles(k, j, response) ==
    /\ k \in DOMAIN chainBranch
    /\ chainBranch[k].path = "contracts"
    /\ j \in DOMAIN chainBranch[k].balances
    /\ chainBranch[k].balances[j].state = "pending"
    /\ chainBranch' = [chainBranch EXCEPT
                         ![k] = ContractsBranchAfter(@, chainGroups[k].tokens[j], j, response)]
    /\ tokenResponse' = [tokenResponse EXCEPT ![k][j] = response]
    /\ tokenPromise' = TokenBalancesPromise(tokenPromise, chainBranch')
    /\ UNCHANGED <<currencyVars, multicallChains, id, tokens, chainGroups, batchCalls, batchOutcome, earlier,
                   ethRequests, gasVars, reducerVars>>

\* the eth_call request for token j of chain group k of the n-th earlier
\* call settles
EarlierTokenRequestSettles(n, k, j, response) ==
    /\ n \in DOMAIN earlier
    /\ k \in DOMAIN earlier[n].chainBranch
    /\ earlier[n].chainBranch[k].path = "contracts"
    /\ j \in DOMAIN earlier[n].chainBranch[k].balances
    /\ earlier[n].chainBranch[k].balances[j].state = "pending"
    /\ LET call == earlier[n]
           branches == [call.chainBranch EXCEPT
                          ![k] = ContractsBranchAfter(@, call.chainGroups[k].tokens[j], j, response)]
       IN  earlier' = [earlier EXCEPT
                         ![n] = [tokens |-> call.tokens, chainGroups |-> call.chainGroups,
                                 chainBranch |-> branches,
                                 tokenPromise |-> TokenBalancesPromise(call.tokenPromise, branches)]]
    /\ UNCHANGED <<currencyVars, multicallChains, id, tokens, chainGroups, chainBranch, batchCalls, batchOutcome,
                   tokenResponse, tokenPromise, ethRequests, gasVars, reducerVars>>

\* the batchCall of chain group k settles with batch; the continuation of
\* getTokenBalancesFromMulticall runs
BatchCallSettles(k, batch) ==
    /\ k \in DOMAIN chainBranch
    /\ chainBranch[k].path = "multicall"
    /\ chainBranch[k].state = "pending"
    /\ chainBranch' = [chainBranch EXCEPT
                         ![k] = Merge(getTokenBalancesFromMulticall(chainGroups[k].tokens, batch),
                                      [path |-> "multicall"])]
    /\ tokenPromise' = TokenBalancesPromise(tokenPromise, chainBranch')
    /\ UNCHANGED <<currencyVars, multicallChains, id, tokens, chainGroups, batchCalls, tokenResponse, earlier,
                   ethRequests, gasVars, reducerVars>>

\* the batcher answers the calls of group k with per-call outcomes
BatchCallResolves(k, outcome) ==
    /\ k \in DOMAIN chainBranch
    /\ DOMAIN outcome = DOMAIN chainGroups[k].tokens
    /\ batchOutcome' = [batchOutcome EXCEPT ![k] = outcome]
    /\ BatchCallSettles(k, BatchResults(balanceCalls(Address, chainGroups[k].tokens), outcome))

\* the whole batched call of group k fails
BatchCallRejects(k) ==
    /\ BatchCallSettles(k, BatchRejected)
    /\ UNCHANGED batchOutcome

TokenResponses ==
    {TransportError, TransportResult(<<>>)} \cup {TransportResult(AbiEncode(n)) : n \in TokenAmounts}

(***************************************************************************)
(* gasCalculator.ts.  JavaScript numbers are non-negative integers, NaN    *)
(* or undefined; a gas-used ratio is held in percent.  An operator that    *)
(* can throw yields Ok(value) or Thrown(error).                            *)
(***************************************************************************)
NaN == 0 - 1
Undefined == 0 - 2

Ok(v) == [ok |-> TRUE, value |-> v]
Thrown(e) == [ok |-> FALSE, error |-> e]

oneGwei == 1000000000

\* parseInt("0x" + digits, 16), and parseInt("0x" + digits) without a radix
parseIntHex(ds) == IF ds = <<>> THEN NaN ELSE FromDigits(ds, 16)

\* ethereumjs-util intToHex: throws unless given a non-negative safe integer
intToHex(i) ==
    IF i = NaN \/ i = Undefined \/ i < 0
    THEN Thrown("Received an invalid integer type")
    ELSE Ok(ToDigits(i, 16))

rpcPayload(method, params) ==
    [method |-> method, params |-> params, id |-> 1, jsonrpc |-> "2.0"]

\* array[i] || [] and array[i] of an index that may be out of range
RewardsAt(reward, i) == IF i \in DOMAIN reward THEN reward[i] ELSE <<>>
RatioAt(gasUsedRatio, i) == IF i \in DOMAIN gasUsedRatio THEN gasUsedRatio[i] ELSE Undefined

\* _getFeeHistory once connection.send has settled with response
getFeeHistory(response) ==
    IF ~response.ok THEN Thrown(response.error)
    ELSE LET feeHistory == response.result
         IN  IF "baseFeePerGas" \notin DOMAIN feeHistory
             THEN Thrown("TypeError: feeHistory.baseFeePerGas is undefined")
             ELSE IF feeHistory.baseFeePerGas /= <<>> /\ "gasUsedRatio" \notin DOMAIN feeHistory
             THEN Thrown("TypeError: feeHistory.gasUsedRatio is undefined")
             ELSE IF feeHistory.baseFeePerGas /= <<>> /\ "reward" \notin DOMAIN feeHistory
             THEN Thrown("TypeError: feeHistory.reward is undefined")
             ELSE Ok([i \in 1..Len(feeHistory.baseFeePerGas) |->
                        [baseFee |-> parseIntHex(feeHistory.baseFeePerGas[i]),
                         gasUsedRatio |-> RatioAt(feeHistory.gasUsedRatio, i),
                         rewards |-> LET rs == RewardsAt(feeHistory.reward, i)
                                     IN  [r \in 1..Len(rs) |-> parseIntHex(rs[r])]]])

\* String(x) as character codes, for a number x
NumberToString(x) ==
    IF x = NaN THEN <<78, 97, 78>>
    ELSE LET ds == ToDigits(x, 10) IN [i \in 1..Len(ds) |-> 48 + ds[i]]

\* a < b for strings, by code unit
RECURSIVE StringLess(_, _)
StringLess(a, b) ==
    IF b = <<>> THEN FALSE
    ELSE IF a = <<>> THEN TRUE
    ELSE IF Head(a) /= Head(b) THEN Head(a) < Head(b)
    ELSE StringLess(Tail(a), Tail(b))

\* the order Array.prototype.sort() uses without a comparator
ByStringLess(x, y) == StringLess(NumberToString(x), NumberToString(y))

\* insertion of x into a sorted list, after its equals
RECURSIVE InsertSorted(_, _)
InsertSorted(x, sorted) ==
    IF sorted = <<>> THEN <<x>>
    ELSE IF ByStringLess(x, Head(sorted)) THEN <<x>> \o sorted
    ELSE <<Head(sorted)>> \o InsertSorted(x, Tail(sorted))

RECURSIVE SortAsStrings(_)
SortAsStrings(xs) ==
    IF xs = <<>> THEN <<>>
    ELSE InsertSorted(xs[Len(xs)], SortAsStrings(SubSeq(xs, 1, Len(xs) - 1)))

\* Array.prototype.sort() without a comparator: elements compared as
\* strings, undefined elements last
ArraySort(xs) ==
    SortAsStrings(SelectSeq(xs, LAMBDA x : x /= Undefined))
        \o SelectSeq(xs, LAMBDA x : x = Undefined)

\* the bounds of the gas-used ratio of an eligible block, in percent
MinGasUsedRatio == 10
MaxGasUsedRatio == 90

Eligible(block) ==
    /\ block.gasUsedRatio /= Undefined
    /\ block.gasUsedRatio >= MinGasUsedRatio
    /\ block.gasUsedRatio <= MaxGasUsedRatio

\* block.rewards[0]
FirstReward(block) == IF block.rewards = <<>> THEN Undefined ELSE block.rewards[1]

eligibleRewardsBlocks(blocks) ==
    LET eligible == SelectSeq(blocks, Eligible)
    IN  [i \in 1..Len(eligible) |-> FirstReward(eligible[i])]

\* x || oneGwei
OrOneGwei(x) == IF x = Undefined \/ x = NaN \/ x = 0 THEN oneGwei ELSE x

\* sorted[Math.floor(length / 2)] || oneGwei
medianReward(blocks) ==
    LET sorted == ArraySort(eligibleRewardsBlocks(blocks))
        middle == (Len(sorted) \div 2) + 1
    IN  OrOneGwei(IF middle \in DOMAIN sorted THEN sorted[middle] ELSE Undefined)

\* the fee rounded down: Math.floor in place of Math.ceil
calculatedFeeRoundedDown(nextBlockFee) ==
    IF nextBlockFee = NaN THEN NaN
    ELSE (nextBlockFee * 9 * 9) \div (8 * 8)

\* Math.ceil(nextBlockFee * 1.125 * 1.125)
calculatedFee(nextBlockFee) ==
    IF nextBlockFee = NaN THEN NaN
    ELSE (nextBlockFee * 9 * 9 + (8 * 8 - 1)) \div (8 * 8)

\* NaN + x is NaN
Plus(x, y) == IF x = NaN \/ y = NaN THEN NaN ELSE x + y

\* the fees with the priority fee left out of maxFeePerGas
feesWithoutReward(fee, reward) ==
    <<intToHex(fee), intToHex(reward), intToHex(fee)>>

\* the fees the try block of getFeePerGas returns, hex-encoded
encodedFees(fee, reward) ==
    <<intToHex(fee), intToHex(reward), intToHex(Plus(fee, reward))>>

\* the try block of getFeePerGas
computedFees(response) ==
    LET history == getFeeHistory(response)
    IN  IF ~history.ok THEN history
        ELSE IF history.value = <<>>
        THEN Thrown("TypeError: blocks[blocks.length - 1] is undefined")
        ELSE LET blocks == history.value
                 fee == calculatedFee(blocks[Len(blocks)].baseFee)
                 reward == medianReward(blocks)
                 maxBase == encodedFees(fee, reward)[1]
                 maxPriority == encodedFees(fee, reward)[2]
                 maxFee == encodedFees(fee, reward)[3]
             IN  IF ~maxBase.ok THEN maxBase
                 ELSE IF ~maxPriority.ok THEN maxPriority
                 ELSE IF ~maxFee.ok THEN maxFee
                 ELSE Ok([maxBaseFeePerGas |-> maxBase.value,
                          maxPriorityFeePerGas |-> maxPriority.value,
                          maxFeePerGas |-> maxFee.value])

\* the catch block of getFeePerGas
defaultGas(level) ==
    LET maxPriority == intToHex(oneGwei)
        maxFee == intToHex(Plus(parseIntHex(level), oneGwei))
    IN  IF ~maxPriority.ok THEN maxPriority
        ELSE IF ~maxFee.ok THEN maxFee
        ELSE Ok([maxBaseFeePerGas |-> level,
                 maxPriorityFeePerGas |-> maxPriority.value,
                 maxFeePerGas |-> maxFee.value])

\* an async function's promise: fulfilled with what it returns, rejected
\* with what it throws
Settle(outcome) == IF outcome.ok THEN Fulfilled(outcome.value) ELSE Rejected(outcome.error)

\* getFeePerGas with the try block alone: an error propagates
feePerGasNoCatch(level, response) == Settle(computedFees(response))

\* getFeePerGas whose fallback leaves oneGwei out of maxFeePerGas
feePerGasDefaultWithoutTip(level, response) ==
    LET fees == computedFees(response)
    IN  IF fees.ok THEN Settle(fees)
        ELSE Fulfilled([maxBaseFeePerGas |-> level,
                        maxPriorityFeePerGas |-> ToDigits(oneGwei, 16),
                        maxFeePerGas |-> ToDigits(parseIntHex(level), 16)])

\* getFeePerGas once the fee-history request has settled with response
feePerGas(level, response) ==
    LET fees == computedFees(response)
    IN  IF fees.ok THEN Settle(fees) ELSE Settle(defaultGas(level))

\* getFeePerGas(): asks for the last 10 blocks and the 10th reward percentile
getFeePerGas ==
    /\ feePromise.state = "idle"
    /\ feePromise' = Pending
    /\ sent' = Append(sent, [payload |-> rpcPayload("eth_feeHistory", <<10, "latest", <<10>>>>)])
    /\ UNCHANGED <<feeResponse, defaultGasLevel, estimates, balanceVars, reducerVars>>

\* the fee histories a node answers with: n blocks, one base fee more than
\* blocks, the last one the next block's
FeeHistories ==
    {[baseFeePerGas |-> [i \in 1..(Len(blocks) + 1) |-> IF i <= Len(blocks) THEN PastBaseFee ELSE next],
      gasUsedRatio |-> [i \in 1..Len(blocks) |-> blocks[i][1]],
      reward |-> [i \in 1..Len(blocks) |-> blocks[i][2]]] :
        blocks \in SeqsUpTo(GasUsedRatios \X RewardSamples, MaxBlocks), next \in NextBaseFees}

FeeHistoryResponses ==
    {TransportError,
     TransportResult([error |-> "method not found"]),
     TransportResult([baseFeePerGas |-> <<>>, gasUsedRatio |-> <<>>, reward |-> <<>>]),
     TransportResult([baseFeePerGas |-> <<PastBaseFee>>, gasUsedRatio |-> <<>>])}
    \cup {TransportResult(h) : h \in FeeHistories}

\* the eth_feeHistory request settles with one of the responses
FeeHistorySettles ==
    /\ feePromise.state = "pending"
    /\ \E response \in FeeHistoryResponses :
          /\ feeResponse' = response
          /\ feePromise' = feePerGas(defaultGasLevel, response)
    /\ UNCHANGED <<sent, defaultGasLevel, estimates, balanceVars, reducerVars>>

(***************************************************************************)
(* getGasEstimate                                                          *)
(***************************************************************************)
\* getGasEstimate(rawTx): one eth_estimateGas request for the transaction's
\* chain, answered through a callback
getGasEstimate(rawTx) ==
    /\ Len(estimates) < MaxEstimates
    /\ sent' = Append(sent, [payload |-> rpcPayload("eth_estimateGas", <<rawTx>>),
                             targetChain |-> [type |-> "ethereum", id |-> parseIntHex(rawTx.chainId)],
                             callback |-> Len(estimates) + 1])
    /\ estimates' = Append(estimates, [rawTx |-> rawTx, promise |-> Pending, responses |-> <<>>])
    /\ UNCHANGED <<feePromise, feeResponse, defaultGasLevel, balanceVars, reducerVars>>

\* a callback that resolves whatever the response carries
estimateCallbackIgnoringError(promise, response) ==
    IF promise.state /= "pending" THEN promise ELSE Fulfilled(response.result)

\* the callback of getGasEstimate: response.error is a non-empty string
\* when present
estimateCallback(promise, response) ==
    IF promise.state /= "pending" THEN promise
    ELSE IF "error" \in DOMAIN response THEN Rejected(response.error)
    ELSE Fulfilled(response.result)

\* the transport answers the request of the e-th getGasEstimate call
GasEstimateResponse(e, response) ==
    /\ e \in DOMAIN estimates
    /\ estimates[e].responses = <<>>
    /\ estimates' = [estimates EXCEPT
                       ![e] = [rawTx |-> @.rawTx,
                               promise |-> estimateCallback(@.promise, response),
                               responses |-> Append(@.responses, response)]]
    /\ UNCHANGED <<sent, feePromise, feeResponse, defaultGasLevel, balanceVars, reducerVars>>

EstimateResponses ==
    {[result |-> r] : r \in GasLimits}
    \cup {[error |-> e, result |-> r] : e \in EstimateErrors, r \in GasLimits \cup {<<>>}}

(***************************************************************************)
(* reducers.ts: relevantBalances                                           *)
(***************************************************************************)
\* the balances relevantBalances is given: token balances as getTokenBalances
\* produces them, with raw balances "0x0", "0x00" and "0x05dc"
BalanceEntries ==
    {Merge(t, createBalance(b, t.decimals)) :
        t \in {d \in TokenDefinitions : d.decimals < 2},
        b \in {<<0>>} \cup {toHexString(n) : n \in TokenAmounts}}
HeldBalances == {<<>>} \cup {<<e>> : e \in {b \in BalanceEntries : b.chainId = 1}}

\* t => parseInt(t.balance) >= 0
NotNegative(t) == parseIntHex(t.balance) /= NaN /\ parseIntHex(t.balance) >= 0

\* t => parseInt(t.balance) > 0
Positive(t) == parseIntHex(t.balance) /= NaN /\ parseIntHex(t.balance) > 0

\* relevantBalances(balances, tokenBalances) on the heap h, both arguments
\* references: filter and the array literal each create a new array
relevantBalances(h, balances, tokenBalances) ==
    LET positiveBalances == SelectSeq(h[tokenBalances].list, Positive)
    IN  [heap |-> h \o <<[list |-> positiveBalances],
                         [list |-> h[balances].list \o positiveBalances]>>,
         returned |-> Len(h) + 2]

\* relevant before relevantBalances has been called
NotCalled == [called |-> FALSE]

\* a call of relevantBalances with two arrays of the caller
relevantBalancesCall(balances, tokenBalances) ==
    /\ relevant = NotCalled
    /\ LET given == heap \o <<[list |-> balances], [list |-> tokenBalances]>>
           call == relevantBalances(given, Len(heap) + 1, Len(heap) + 2)
       IN  /\ heap' = call.heap
           /\ relevant' = [called |-> TRUE,
                           balances |-> balances, tokenBalances |-> tokenBalances,
                           arguments |-> <<Len(heap) + 1, Len(heap) + 2>>,
                           returned |-> call.returned]
    /\ UNCHANGED <<reduced, accumulator, balanceVars, gasVars>>

Init ==
    /\ chains = <<>>
    /\ nativeBranch = <<>>
    /\ currencyPromise = Idle
    /\ ethRequests = <<>>
    /\ multicallChains \in SUBSET ChainIds
    /\ id = 1
    /\ tokens = <<>>
    /\ chainGroups = <<>>
    /\ chainBranch = <<>>
    /\ batchCalls = <<>>
    /\ batchOutcome = <<>>
    /\ tokenResponse = <<>>
    /\ tokenPromise = Idle
    /\ earlier = <<>>
    /\ defaultGasLevel \in DefaultGasLevels
    /\ sent = <<>>
    /\ feeResponse = NoResponse
    /\ feePromise = Idle
    /\ estimates = <<>>
    /\ heap = <<[map |-> <<>>]>>      \* the {} that reduce starts from
    /\ reduced = <<>>
    /\ accumulator = 1
    /\ relevant = NotCalled

NextCurrency ==
    \/ \E chs \in SeqsUpTo(ChainIds, MaxChains) : getCurrencyBalances(Address, chs)
    \/ \E i \in 1..MaxChains, response \in BalanceResponses : BalanceRequestSettles(i, response)

SpecCurrency == Init /\ [][NextCurrency]_vars

NextTokens ==
    \/ \E tks \in DistinctSeqsUpTo(TokenDefinitions, MaxTokens) : getTokenBalances(Address, tks)
    \/ \E k \in DOMAIN chainBranch, j \in 1..MaxTokens, response \in TokenResponses :
          TokenRequestSettles(k, j, response)
    \/ \E k \in DOMAIN chainBranch :
          \E outcome \in BatchOutcomes(Len(chainGroups[k].tokens)) :
              BatchCallResolves(k, outcome)
    \/ \E k \in DOMAIN chainBranch : BatchCallRejects(k)

SpecTokens == Init /\ [][NextTokens]_vars

NextFee ==
    \/ getFeePerGas
    \/ FeeHistorySettles

\* the balance loader plays no part in the gas calculator or in the reducers:
\* its oracle is held fixed
InitGas == Init /\ multicallChains = {}

SpecFee == InitGas /\ [][NextFee]_vars

NextEstimate ==
    \/ \E rawTx \in RawTransactions : getGasEstimate(rawTx)
    \/ \E e \in 1..MaxEstimates, response \in EstimateResponses : GasEstimateResponse(e, response)

SpecEstimate == InitGas /\ [][NextEstimate]_vars

\* One way for a request to complete and one for it to fail: all that the
\* order of the requests and the settling of the promises depend on
BalanceCompletions == {TransportError, TransportResult(<<1, 11>>)}
TokenCompletions == {TransportError, TransportResult(AbiEncode(1500))}
CallCompletions == {[success |-> FALSE], [success |-> TRUE, amount |-> 1500]}

\* calls of getTokenBalances that overlap, every chain on the per-token path
ConcurrentTokens == {t \in TokenDefinitions : t.decimals < 2}

NextRequests ==
    \/ \E tks \in DistinctSeqsUpTo(ConcurrentTokens, Cardinality(ConcurrentTokens)) :
          getTokenBalances(Address, tks)
    \/ \E tks \in DistinctSeqsUpTo(ConcurrentTokens, Cardinality(ConcurrentTokens)) :
          getTokenBalancesAgain(Address, tks)
    \/ \E k \in DOMAIN chainBranch, j \in 1..MaxTokens, response \in TokenCompletions :
          TokenRequestSettles(k, j, response)
    \/ \E n \in DOMAIN earlier, k \in 1..MaxTokens, j \in 1..MaxTokens, response \in TokenCompletions :
          EarlierTokenRequestSettles(n, k, j, response)

InitFallback == Init /\ multicallChains = {}

SpecRequests == InitFallback /\ [][NextRequests]_vars

NextGroup == \E token \in TokenDefinitions : ReduceStep(token)

SpecGroup == InitGas /\ [][NextGroup]_vars

NextRelevant ==
    \E balances \in HeldBalances, tokenBalances \in SeqsUpTo(BalanceEntries, MaxTokens) :
        relevantBalancesCall(balances, tokenBalances)

SpecRelevant == InitGas /\ [][NextRelevant]_vars

\* One call of either loader, every request and every batched call it issued
\* eventually completing or failing.  The loaders share no state, so a
\* behaviour exercises one of them.
BalanceRequestCompletes ==
    \E i \in 1..MaxChains, response \in BalanceCompletions : BalanceRequestSettles(i, response)

TokenRequestCompletes ==
    \E k \in DOMAIN chainBranch, j \in 1..MaxTokens, response \in TokenCompletions :
        TokenRequestSettles(k, j, response)

BatchCallCompletes ==
    \E k \in DOMAIN chainBranch :
        \/ BatchCallRejects(k)
        \/ \E outcome \in [1..Len(chainGroups[k].tokens) -> CallCompletions] :
              BatchCallResolves(k, outcome)

NextLoaders ==
    \/ \E chs \in SeqsUpTo(ChainIds, MaxChains) :
          tokenPromise.state = "idle" /\ getCurrencyBalances(Address, chs)
    \/ \E tks \in DistinctSeqsUpTo(TokenDefinitions, MaxTokens) :
          currencyPromise.state = "idle" /\ getTokenBalances(Address, tks)
    \/ BalanceRequestCompletes
    \/ TokenRequestCompletes
    \/ BatchCallCompletes

RequestsComplete ==
    /\ WF_vars(BalanceRequestCompletes)
    /\ WF_vars(TokenRequestCompletes)
    /\ WF_vars(BatchCallCompletes)

SpecLoaders == Init /\ [][NextLoaders]_vars /\ RequestsComplete

Next == NextCurrency \/ NextTokens \/ NextRequests \/ NextFee \/ NextEstimate \/ NextGroup \/ NextRelevant

Spec == Init /\ [][Next]_vars

AllNativeSettled == \A i \in DOMAIN nativeBranch : nativeBranch[i].state /= "pending"

\* C1: getCurrencyBalances never rejects; once every eth_getBalance request
\* has succeeded or failed it is resolved, with one entry per input chain,
\* the i-th entry carrying chainId = chains[i].
C1_OneEntryPerChain ==
    /\ currencyPromise.state /= "rejected"
    /\ (currencyPromise.state /= "idle" /\ AllNativeSettled) => currencyPromise.state = "fulfilled"
    /\ currencyPromise.state = "fulfilled" =>
         /\ Len(currencyPromise.value) = Len(chains)
         /\ \A i \in 1..Len(chains) : currencyPromise.value[i].chainId = chains[i]

\* C1 witness: resolved for two different chains, one request failed and one
\* succeeded
C1_Witness ==
    /\ currencyPromise.state = "fulfilled"
    /\ Len(chains) >= 2
    /\ chains[1] /= chains[2]
    /\ \E i, j \in 1..Len(chains) :
         /\ "displayValue" \in DOMAIN currencyPromise.value[i]
         /\ "displayBalance" \in DOMAIN currencyPromise.value[j]

\* C10: every entry getCurrencyBalances resolves with has a chain id, a raw
\* balance and a displayBalance that is the raw balance shifted by 18
\* decimals, degraded entries included.
C10_WellFormedEntries ==
    currencyPromise.state = "fulfilled" =>
        \A i \in 1..Len(currencyPromise.value) :
            LET entry == currencyPromise.value[i]
            IN  /\ {"chainId", "balance", "displayBalance"} \subseteq DOMAIN entry
                /\ entry.displayBalance = ShiftedToString(FromDigits(entry.balance, 16), NativeDecimals)

(***************************************************************************)
(* getTokenBalances: properties                                            *)
(***************************************************************************)
Identity(t) == <<t.chainId, t.address>>
Identities(ts) == [i \in 1..Len(ts) |-> Identity(ts[i])]
OnChain(ts, c) == SelectSeq(ts, LAMBDA t : t.chainId = c)

AllTokenCallsSettled ==
    \A k \in DOMAIN chainBranch :
        /\ chainBranch[k].path = "multicall" => chainBranch[k].state /= "pending"
        /\ chainBranch[k].path = "contracts" =>
             \A j \in DOMAIN chainBranch[k].balances : chainBranch[k].balances[j].state /= "pending"

\* C2: getTokenBalances never rejects because of an RPC outcome: whatever
\* the eth_call requests and the batched calls settle with, the promise is
\* not rejected, and it is resolved once they have all settled.
C2_NeverRejects ==
    /\ tokenPromise.state /= "rejected"
    /\ (tokenPromise.state /= "idle" /\ AllTokenCallsSettled) => tokenPromise.state = "fulfilled"

C4_BatchMergedByPosition ==
    \A k \in DOMAIN chainBranch :
        (chainBranch[k].path = "multicall" /\ chainBranch[k].state = "fulfilled") =>
            LET tks == OnChain(tokens, ChainGroups(tokens)[k].chainId)
                out == chainBranch[k].value
            IN  /\ Len(out) = Len(tks)
                /\ \A i \in 1..Len(tks) :
                     /\ out[i].chainId = tks[i].chainId
                     /\ out[i].address = tks[i].address
                     /\ out[i].decimals = tks[i].decimals
                     /\ batchOutcome[k][i].success =>
                          /\ out[i].balance = toHexString(batchOutcome[k][i].amount)
                          /\ out[i].displayBalance =
                               ShiftedToString(batchOutcome[k][i].amount, tks[i].decimals)
                     /\ ~batchOutcome[k][i].success =>
                          /\ out[i].balance = <<0>>
                          /\ out[i].displayBalance = ShiftedToString(0, tks[i].decimals)

\* C4 witness: a batch of at least two calls answered with one failure and
\* one positive amount
C4_Witness ==
    \E k \in DOMAIN chainBranch :
        /\ chainBranch[k].path = "multicall"
        /\ chainBranch[k].state = "fulfilled"
        /\ \E i, j \in DOMAIN batchOutcome[k] :
             /\ ~batchOutcome[k][i].success
             /\ batchOutcome[k][j].success
             /\ batchOutcome[k][j].amount > 0
             /\ chainBranch[k].value[j].balance /= <<0>>

\* C5: for a chain the capability oracle answers false for, batchCall is
\* never invoked, and its tokens are queried by exactly one eth_call each,
\* in input order.
C5_NoBatchWithoutSupport ==
    \A c \in ChainIds :
        ~multicallSupportsChain(c) =>
            LET requests == SelectSeq(ethRequests,
                                      LAMBDA r : r.method = "eth_call" /\ r.chainId = ToHex(c))
                tks == OnChain(tokens, c)
            IN  /\ \A b \in DOMAIN batchCalls : batchCalls[b].chainId /= c
                /\ Len(requests) = Len(tks)
                /\ \A i \in 1..Len(tks) : requests[i].params[1].to = tks[i].address

\* C5 witness: one call with two tokens on an unsupported chain and a token
\* on a supported chain
C5_Witness ==
    /\ tokenPromise.state /= "idle"
    /\ \E c \in ChainIds : ~multicallSupportsChain(c) /\ Len(OnChain(tokens, c)) = 2
    /\ batchCalls /= <<>>


(***************************************************************************)
(* GasCalculator: properties                                               *)
(***************************************************************************)
FeeFields == {"maxBaseFeePerGas", "maxPriorityFeePerGas", "maxFeePerGas"}
FeeResponded == "ok" \in DOMAIN feeResponse

\* the fee-history request failed, or its answer is malformed (not a fee
\* history, an array missing, the newest base fee no hex number) or holds
\* no block
FeeHistoryUnusable ==
    /\ FeeResponded
    /\ \/ ~feeResponse.ok
       \/ ~({"baseFeePerGas", "gasUsedRatio", "reward"} \subseteq DOMAIN feeResponse.result)
       \/ feeResponse.result.baseFeePerGas = <<>>
       \/ feeResponse.result.baseFeePerGas[Len(feeResponse.result.baseFeePerGas)] = <<>>

\* C6: getFeePerGas never rejects: whatever the fee-history request settles
\* with and whatever the default gas level, the promise is resolved with a
\* structure holding maxBaseFeePerGas, maxPriorityFeePerGas and maxFeePerGas.
C6_FeePerGasNeverRejects ==
    /\ feePromise.state /= "rejected"
    /\ FeeResponded =>
         /\ feePromise.state = "fulfilled"
         /\ DOMAIN feePromise.value = FeeFields

\* C6 witness: resolved after the fee-history request failed
C6_Witness ==
    /\ FeeResponded
    /\ ~feeResponse.ok
    /\ feePromise.state = "fulfilled"

\* C7: when the fee-history request fails, the history is malformed or it
\* holds no block, getFeePerGas resolves with the fixed fallback:
\* maxBaseFeePerGas the default gas level, maxPriorityFeePerGas 10^9 and
\* maxFeePerGas the default gas level plus 10^9.
C7_FixedFallback ==
    FeeHistoryUnusable =>
        /\ feePromise.state = "fulfilled"
        /\ feePromise.value.maxBaseFeePerGas = defaultGasLevel
        /\ FromDigits(feePromise.value.maxPriorityFeePerGas, 16) = oneGwei
        /\ FromDigits(feePromise.value.maxFeePerGas, 16) = FromDigits(defaultGasLevel, 16) + oneGwei

\* C7 witness: resolved for a well-formed history that holds no block
C7_Witness ==
    /\ FeeResponded
    /\ feeResponse.ok
    /\ "baseFeePerGas" \in DOMAIN feeResponse.result
    /\ feeResponse.result.baseFeePerGas = <<>>
    /\ feePromise.state = "fulfilled"

\* C8: every fee structure getFeePerGas resolves with has, as integers,
\* maxFeePerGas = maxBaseFeePerGas + maxPriorityFeePerGas.
C8_MaxFeeIsSum ==
    feePromise.state = "fulfilled" =>
        FromDigits(feePromise.value.maxFeePerGas, 16)
            = FromDigits(feePromise.value.maxBaseFeePerGas, 16)
                + FromDigits(feePromise.value.maxPriorityFeePerGas, 16)

\* C8 witness: a result of the computed path with a sampled priority fee
C8_Witness ==
    /\ feePromise.state = "fulfilled"
    /\ ~FeeHistoryUnusable
    /\ feePromise.value.maxBaseFeePerGas /= defaultGasLevel
    /\ FromDigits(feePromise.value.maxPriorityFeePerGas, 16) \in 1..(oneGwei - 1)

\* the requests sent for the e-th getGasEstimate call
EstimateRequests(e) ==
    SelectSeq(sent, LAMBDA s : "callback" \in DOMAIN s /\ s.callback = e)

\* C9: getGasEstimate sends one eth_estimateGas request for the
\* transaction's chain; its promise is pending until the response, rejected
\* with exactly the response's error when it carries one and resolved with
\* exactly the response's result otherwise.
C9_EstimateFollowsResponse ==
    \A e \in DOMAIN estimates :
        LET call == estimates[e]
        IN  /\ Len(EstimateRequests(e)) = 1
            /\ EstimateRequests(e)[1].payload.method = "eth_estimateGas"
            /\ EstimateRequests(e)[1].payload.params = <<call.rawTx>>
            /\ EstimateRequests(e)[1].targetChain.id = FromDigits(call.rawTx.chainId, 16)
            /\ call.responses = <<>> => call.promise = Pending
            /\ call.responses /= <<>> =>
                 IF "error" \in DOMAIN call.responses[1]
                 THEN call.promise = Rejected(call.responses[1].error)
                 ELSE call.promise = Fulfilled(call.responses[1].result)

\* C9 witness: two calls, one whose response carried an error beside a
\* result and one whose response carried a result only
C9_Witness ==
    /\ Len(estimates) = 2
    /\ estimates[1].promise.state = "fulfilled"
    /\ estimates[2].promise.state = "rejected"
    /\ estimates[2].responses[1].result /= <<>>
    /\ estimates[1].rawTx.chainId /= estimates[2].rawTx.chainId

\* the fee-history request was answered with a history getFeePerGas computes
\* its fees from
FeeComputed == FeeResponded /\ ~FeeHistoryUnusable

\* the base fee of the last element of the returned fee history
NextBlockFee ==
    FromDigits(feeResponse.result.baseFeePerGas[Len(feeResponse.result.baseFeePerGas)], 16)

\* C11: on the computed path maxBaseFeePerGas is the ceiling of
\* 81 * nextBlockFee / 64, the least integer m with 64 * m >= 81 * nextBlockFee,
\* where nextBlockFee is the base fee of the last element of the history.
C11_MaxBaseFeeIsCeiling ==
    FeeComputed =>
        /\ feePromise.state = "fulfilled"
        /\ LET m == FromDigits(feePromise.value.maxBaseFeePerGas, 16)
           IN  /\ 64 * m >= 81 * NextBlockFee
               /\ 64 * (m - 1) < 81 * NextBlockFee

\* C11 witness: a history ending in base fee 110 with eligible rewards 2 and 3
\* resolved with {140, 3, 143}
C11_Witness ==
    /\ FeeComputed
    /\ NextBlockFee = 110
    /\ feePromise.state = "fulfilled"
    /\ FromDigits(feePromise.value.maxBaseFeePerGas, 16) = 140
    /\ FromDigits(feePromise.value.maxPriorityFeePerGas, 16) = 3
    /\ FromDigits(feePromise.value.maxFeePerGas, 16) = 143

\* the blocks of the answered history whose gas-used ratio lies in [0.1, 0.9]
EligibleBlocks ==
    {i \in DOMAIN feeResponse.result.gasUsedRatio :
        /\ feeResponse.result.gasUsedRatio[i] >= MinGasUsedRatio
        /\ feeResponse.result.gasUsedRatio[i] <= MaxGasUsedRatio}

\* the blocks that carry a reward sample that is a hex number
SampledBlocks ==
    {i \in DOMAIN feeResponse.result.reward :
        feeResponse.result.reward[i] /= <<>> /\ feeResponse.result.reward[i][1] /= <<>>}

\* the reward sample of block i
SampleOf(i) == FromDigits(feeResponse.result.reward[i][1], 16)

MaxPriorityFee == FromDigits(feePromise.value.maxPriorityFeePerGas, 16)

\* C13: on the computed path, when every eligible block carries a positive
\* reward sample, maxPriorityFeePerGas is the element at index
\* floor(count / 2) of the samples in numerically ascending order: a sample v
\* with at most floor(count / 2) samples below it and more than
\* floor(count / 2) samples at or below it.
C13_MedianOfNumericSort ==
    (/\ FeeComputed
     /\ EligibleBlocks /= {}
     /\ \A i \in EligibleBlocks : i \in SampledBlocks /\ SampleOf(i) > 0) =>
        /\ feePromise.state = "fulfilled"
        /\ \E i \in EligibleBlocks :
             /\ MaxPriorityFee = SampleOf(i)
             /\ Cardinality({j \in EligibleBlocks : SampleOf(j) < SampleOf(i)})
                    <= Cardinality(EligibleBlocks) \div 2
             /\ Cardinality({j \in EligibleBlocks : SampleOf(j) <= SampleOf(i)})
                    > Cardinality(EligibleBlocks) \div 2

\* C14: on the computed path the 1 gwei default is used exactly when no
\* eligible block exists: without an eligible block maxPriorityFeePerGas is
\* 10^9, and as soon as an eligible block carries a sample it is the sample
\* of an eligible block, a sample of 0 included.
C14_DefaultOnlyWithoutEligibleBlock ==
    FeeComputed =>
        /\ feePromise.state = "fulfilled"
        /\ EligibleBlocks = {} => MaxPriorityFee = oneGwei
        /\ EligibleBlocks \cap SampledBlocks /= {} =>
             \E i \in EligibleBlocks \cap SampledBlocks : MaxPriorityFee = SampleOf(i)

(***************************************************************************)
(* Balance loading: further properties                                     *)
(***************************************************************************)
\* the eth_call request failed, or its response cannot be decoded
CallFailed(response) == ~response.ok \/ Len(response.result) /= AbiWordDigits

\* C12: on the per-token path failures are isolated per token: a chain group
\* never rejects, it is resolved once all its eth_call requests have settled,
\* and its output holds every token of the group in input order, with raw
\* balance "0x0" for a token whose call failed and the balance decoded from
\* its own response otherwise.
C12_FailuresIsolatedPerToken ==
    \A k \in DOMAIN chainBranch :
        chainBranch[k].path = "contracts" =>
            LET tks == OnChain(tokens, ChainGroups(tokens)[k].chainId)
            IN  /\ chainBranch[k].state /= "rejected"
                /\ (\A j \in DOMAIN tokenResponse[k] : tokenResponse[k][j] /= NoResponse)
                       => chainBranch[k].state = "fulfilled"
                /\ chainBranch[k].state = "fulfilled" =>
                     /\ Len(chainBranch[k].value) = Len(tks)
                     /\ \A j \in 1..Len(tks) :
                          /\ Identity(chainBranch[k].value[j]) = Identity(tks[j])
                          /\ IF CallFailed(tokenResponse[k][j])
                             THEN chainBranch[k].value[j].balance = <<0>>
                             ELSE FromDigits(chainBranch[k].value[j].balance, 16)
                                    = FromDigits(tokenResponse[k][j].result, 16)

\* C12 witness: a resolved group of two tokens, the call of the first failed
\* and the second decoded to a positive balance
C12_Witness ==
    \E k \in DOMAIN chainBranch :
        /\ chainBranch[k].path = "contracts"
        /\ chainBranch[k].state = "fulfilled"
        /\ Len(chainBranch[k].value) = 2
        /\ CallFailed(tokenResponse[k][1])
        /\ ~CallFailed(tokenResponse[k][2])
        /\ chainBranch[k].value[1].balance = <<0>>
        /\ FromDigits(chainBranch[k].value[2].balance, 16) > 0

\* the chain ids of a token list in the order of their first appearance
RECURSIVE ChainsByFirstAppearance(_)
ChainsByFirstAppearance(tks) ==
    IF tks = <<>> THEN <<>>
    ELSE <<Head(tks).chainId>>
            \o ChainsByFirstAppearance(SelectSeq(Tail(tks), LAMBDA t : t.chainId /= Head(tks).chainId))

\* C15: the result of getTokenBalances is the concatenation of the per-chain
\* results, the chains ordered by the position of their first token in the
\* input and the tokens of a chain in input order.
C15_ChainsByFirstAppearance ==
    tokenPromise.state = "fulfilled" =>
        LET order == ChainsByFirstAppearance(tokens)
        IN  Identities(tokenPromise.value)
              = Identities(Concat([n \in 1..Len(order) |-> OnChain(tokens, order[n])]))

\* C16: every step of folding groupByChain from the empty map returns a new
\* map that partitions the tokens folded so far (its keys are their chain
\* ids, the list under a key the tokens of that chain in input order), and
\* leaves every object that existed before the step as it was.
C16_FoldPartitionsInput ==
    [][/\ accumulator' \notin DOMAIN heap
       /\ \A ref \in DOMAIN heap : heap'[ref] = heap[ref]
       /\ DOMAIN Deref(heap', accumulator')
            = {PropertyKey(reduced'[i].chainId) : i \in DOMAIN reduced'}
       /\ \A key \in DOMAIN Deref(heap', accumulator') :
            Deref(heap', accumulator')[key] = OnChain(reduced', FromDigits(key, 10))]_vars

\* C16 witness: tokens of chains 137, 1, 137 folded, the two tokens of chain
\* 137 under one key
C16_Witness ==
    /\ Len(reduced) = 3
    /\ reduced[1].chainId = 137
    /\ reduced[2].chainId = 1
    /\ reduced[3].chainId = 137
    /\ reduced[1] /= reduced[3]
    /\ Deref(heap, accumulator)[PropertyKey(137)] = <<reduced[1], reduced[3]>>

Settled(promise) == promise.state \in {"fulfilled", "rejected"}

\* C17: the promise of getCurrencyBalances and of getTokenBalances is not
\* settled while a call it fanned out (per chain, per token on the
\* per-token path) is outstanding.
C17_SettlesAfterAllBranches ==
    /\ Settled(currencyPromise) => AllNativeSettled
    /\ Settled(tokenPromise) => AllTokenCallsSettled

\* C19: relevantBalances returns a new list holding the entries of balances
\* in order followed by exactly the entries of tokenBalances whose raw
\* balance is positive, in order, and leaves both lists it was given as they
\* were.
C19_BalancesThenPositiveTokenBalances ==
    relevant.called =>
        /\ heap[relevant.returned].list
             = relevant.balances
                 \o SelectSeq(relevant.tokenBalances, LAMBDA t : FromDigits(t.balance, 16) > 0)
        /\ relevant.returned \notin {relevant.arguments[1], relevant.arguments[2]}
        /\ heap[relevant.arguments[1]].list = relevant.balances
        /\ heap[relevant.arguments[2]].list = relevant.tokenBalances

\* C19 witness: called with a held balance and token balances "0x0", "0x00"
\* and a positive one, which alone was added
C19_Witness ==
    /\ relevant.called
    /\ Len(relevant.balances) = 1
    /\ Len(relevant.tokenBalances) = 3
    /\ relevant.tokenBalances[1].balance = <<0>>
    /\ relevant.tokenBalances[2].balance = <<0, 0>>
    /\ FromDigits(relevant.tokenBalances[3].balance, 16) > 0
    /\ heap[relevant.returned].list = relevant.balances \o <<relevant.tokenBalances[3]>>

\* the ids of the eth_call requests, in issue order
EthCallIds ==
    LET calls == SelectSeq(ethRequests, LAMBDA r : r.method = "eth_call")
    IN  [n \in 1..Len(calls) |-> calls[n].id]

\* C20: across the tokens, chains and overlapping calls of getTokenBalances,
\* the ids of the eth_call requests strictly increase in issue order, so no
\* two requests carry the same id.
C20_RequestIdsIncrease ==
    \A m, n \in DOMAIN EthCallIds : m < n => EthCallIds[m] < EthCallIds[n]

\* C20 witness: a second call issued its requests while requests of the
\* first were outstanding, and requests of both have settled since, one of
\* the second before the last of the first
C20_Witness ==
    /\ Len(earlier) = 1
    /\ Len(earlier[1].tokens) = 2
    /\ Len(tokens) = 2
    /\ Len(EthCallIds) = 4
    /\ earlier[1].tokenPromise.state = "pending"
    /\ \E k \in DOMAIN earlier[1].chainBranch :
         \E j \in DOMAIN earlier[1].chainBranch[k].balances :
             earlier[1].chainBranch[k].balances[j].state = "fulfilled"
    /\ tokenPromise.state = "fulfilled"

\* C18: every call of getCurrencyBalances and of getTokenBalances eventually
\* settles, given that every request and every batched call it issued
\* completes or fails; a call with an empty list is resolved with an empty
\* result without a request or a batched call being issued.
C18_LoadersSettle ==
    /\ (currencyPromise.state /= "idle") ~> Settled(currencyPromise)
    /\ (tokenPromise.state /= "idle") ~> Settled(tokenPromise)
    /\ []((currencyPromise.state /= "idle" /\ chains = <<>>)
            => (currencyPromise = Fulfilled(<<>>) /\ ethRequests = <<>>))
    /\ []((tokenPromise.state /= "idle" /\ tokens = <<>>)
            => (tokenPromise = Fulfilled(<<>>) /\ ethRequests = <<>> /\ batchCalls = <<>>))

\* C18 witness: a call for tokens of a batched and of a per-token chain has
\* settled after all its calls
C18_Witness ==
    /\ Settled(tokenPromise)
    /\ AllTokenCallsSettled
    /\ \E k, l \in DOMAIN chainBranch :
         chainBranch[k].path = "multicall" /\ chainBranch[l].path = "contracts"

====
